---- MODULE Spec2Model ----
(***************************************************************************)
(* Model of server.js: the in-memory presence registry (pair sessions and  *)
(* study groups) with its socket.io broadcasts, the /api/run and           *)
(* /api/analyze execution service with its temp files, the shared-snippet  *)
(* store of /api/share, and the video call registry.                       *)
(***************************************************************************)
EXTENDS Integers, Sequences, FiniteSets, TLC

\* ------------------------------------------------------------------ bounds
MaxUsers == 2   \* longest member list a join may still extend
MaxUuid == 2    \* uuidv4() values drawn for chat messages and questions
MaxClock == 1   \* last millisecond Date.now() reaches
MaxShares == 2  \* snippets POST /api/share may store

\* ------------------------------------------------------------ input domains
Conns == {"s1", "s2"}                \* socket ids
PairIds == {"x"}                     \* session ids sent by clients
GroupIds == {"x", "y"}               \* group ids sent by clients or drawn by POST
RoomIds == {"x"}                     \* the id a session and a group share
Undefined == "undefined"             \* an absent JavaScript value
InCodes == {"A", "B"}                \* code of an update event
InLanguages == {"python", Undefined} \* language of an update event
InNames == {"Algo Club", Undefined}  \* name of POST /api/groups
InUsernames == {"bob", Undefined}    \* username of a chat submission

Reqs == {"r1", "r2"}                 \* HTTP requests to /api/run and /api/analyze
InRunLanguages == {"python", "javascript", "java", "cpp", "ruby", Undefined}
InPublicClasses == {"none", "Foo"}   \* the first "public class <name>" of a source
Outputs == {"", "text"}              \* what a process wrote on stdout / stderr
Platform == "linux"                  \* process.platform
InTitles == {"T", "", Undefined}     \* title of POST /api/share
Recipients == Conns \cup {"s9"}      \* recipientId / callerId sent by a client

\* a submitted source: whose it is, and the public class it declares
SourceCode(tag, publicClass) == [tag |-> tag, publicClass |-> publicClass]
NoCode == SourceCode(Undefined, "none")
NoOutcome == [exit |-> 0, stdout |-> "", stderr |-> "", killed |-> FALSE]
NoResponse == [status |-> 0, success |-> FALSE, output |-> "", error |-> ""]
IdleRequest ==
  [api |-> "none", language |-> Undefined, code |-> NoCode, phase |-> "idle",
   filePath |-> <<>>, className |-> Undefined, steps |-> <<>>,
   executed |-> "none", outcome |-> NoOutcome, response |-> NoResponse]

NoReply == [request |-> "none", codeId |-> 0, status |-> 0, body |-> <<>>]

PairWelcome == "// Welcome to pair programming!"
GroupWelcome == "// Welcome to the study group!"

VARIABLES
  sockets,            \* socket id -> "fresh" | "connected" | "closed"
  rooms,              \* socket id -> set of socket.io rooms it has joined
  pairSessions,       \* Map sessionId -> {code, language, users}
  heap,               \* group objects, by reference
  globalStudyGroups,  \* Map groupId -> reference of a group object
  studyGroups,        \* Map groupId -> reference of a group object
  uuid,               \* number of uuidv4() values drawn for log entries
  inbox,              \* socket id -> new-message / new-question events received
  emitted,            \* events emitted by the handler that ran last
  lastEvent,          \* the event the last handler processed
  now,                \* Date.now()
  fs,                 \* the temp directory: file name -> content
  requests,           \* /api/run and /api/analyze requests, by request
  sharedCodes,        \* Map codeId -> {code, language, title, createdAt}
  posted,             \* POST /api/share exchanges: the body sent, the codeId returned
  reply,              \* the response to the last /api/share request
  videoCalls          \* Map callId -> {caller, recipient, status}

registryVars == <<sockets, rooms, pairSessions, heap, globalStudyGroups, studyGroups,
                  uuid, inbox, emitted, lastEvent>>
execVars == <<now, fs, requests>>
shareVars == <<sharedCodes, posted, reply>>
callVars == <<videoCalls>>
vars == <<registryVars, execVars, shareVars, callVars>>

\* ------------------------------------------------- JavaScript Map (ordered)
\* A Map is the sequence of its <<key, value>> entries in insertion order.
Keys(m) == [i \in 1..Len(m) |-> m[i][1]]
Has(m, k) == \E i \in 1..Len(m) : m[i][1] = k
Get(m, k) == m[CHOOSE i \in 1..Len(m) : m[i][1] = k][2]
MapSet(m, k, v) ==
  IF Has(m, k)
    THEN [i \in 1..Len(m) |-> IF m[i][1] = k THEN <<k, v>> ELSE m[i]]
    ELSE Append(m, <<k, v>>)
MapDelete(m, k) == SelectSeq(m, LAMBDA e : e[1] # k)

\* ------------------------------------------------------- JavaScript arrays
\* Array.prototype.indexOf / findIndex: first matching index, 0 for -1.
IndexOf(users, c) ==
  IF \E i \in 1..Len(users) : users[i] = c
    THEN CHOOSE i \in 1..Len(users) :
           users[i] = c /\ \A j \in 1..(i - 1) : users[j] # c
    ELSE 0
FindIndex(users, c) ==
  IF \E i \in 1..Len(users) : users[i].id = c
    THEN CHOOSE i \in 1..Len(users) :
           users[i].id = c /\ \A j \in 1..(i - 1) : users[j].id # c
    ELSE 0
\* Array.prototype.splice(i, 1)
Splice(s, i) == [j \in 1..(Len(s) - 1) |-> IF j < i THEN s[j] ELSE s[j + 1]]

\* x || dflt for a string that may be absent
OrElse(x, dflt) == IF x = Undefined THEN dflt ELSE x

\* --------------------------------------------------------- socket.io sends
Connected == {c \in Conns : sockets[c] = "connected"}
\* io.to(room): every connected socket in the room
IoTo(socks, rms, room) == {d \in Conns : socks[d] = "connected" /\ room \in rms[d]}
\* socket.to(room): the room without the sending socket
SocketTo(socks, rms, c, room) == IoTo(socks, rms, room) \ {c}
\* io.emit: every connected socket
IoEmit(socks) == {d \in Conns : socks[d] = "connected"}

Emission(ev, to, payload) == [event |-> ev, to |-> to, payload |-> payload]

\* ------------------------------------------------------------ group objects
NewRef == CHOOSE r \in 1..(Cardinality(DOMAIN heap) + 1) :
            r \notin DOMAIN heap /\ \A q \in 1..(r - 1) : q \in DOMAIN heap
\* objects no registry refers to are dropped
Collect(h, gsg, sg) ==
  [r \in {q \in DOMAIN h : (\E i \in 1..Len(gsg) : gsg[i][2] = q)
                           \/ (\E i \in 1..Len(sg) : sg[i][2] = q)} |-> h[r]]
NewGroup(groupId, name) ==
  [id |-> groupId,
   name |-> IF name = Undefined THEN <<"Study Group", groupId>> ELSE <<name>>,
   users |-> <<>>,
   code |-> GroupWelcome,
   language |-> "javascript",
   messages |-> <<>>,
   questions |-> <<>>]

Init ==
  /\ sockets = [c \in Conns |-> "fresh"]
  /\ rooms = [c \in Conns |-> {}]
  /\ pairSessions = <<>>
  /\ heap = <<>>
  /\ globalStudyGroups = <<>>
  /\ studyGroups = <<>>
  /\ uuid = 0
  /\ inbox = [c \in Conns |-> <<>>]
  /\ emitted = <<>>
  /\ lastEvent = [name |-> "none", socket |-> "none", id |-> "none", data |-> <<>>]
  /\ now = 0
  /\ fs = <<>>
  /\ requests = [r \in Reqs |-> IdleRequest]
  /\ sharedCodes = <<>>
  /\ posted = <<>>
  /\ reply = NoReply
  /\ videoCalls = <<>>

\* an incoming event: its name, the socket it came from, the id and the data it carries
EventData(name, c, id, data) == [name |-> name, socket |-> c, id |-> id, data |-> data]
Event(name, c, id) == EventData(name, c, id, <<>>)

\* io.on('connection')
Connect(c) ==
  /\ sockets[c] = "fresh"
  /\ sockets' = [sockets EXCEPT ![c] = "connected"]
  /\ emitted' = <<>>
  /\ lastEvent' = Event("connection", c, "none")
  /\ UNCHANGED <<rooms, pairSessions, heap, globalStudyGroups, studyGroups,
                 uuid, inbox>>
  /\ UNCHANGED <<execVars, shareVars, callVars>>

\* GET /api/groups
listStudyGroups ==
  [i \in 1..Len(globalStudyGroups) |->
     [id |-> globalStudyGroups[i][1],
      name |-> heap[globalStudyGroups[i][2]].name,
      userCount |-> Len(heap[globalStudyGroups[i][2]].users)]]

\* POST /api/groups; groupId is uuidv4().substr(0, 8), taken to be an id that
\* no registry holds; createdAt is left out
createStudyGroup(groupId, name) ==
  /\ ~Has(globalStudyGroups, groupId)
  /\ ~Has(studyGroups, groupId)
  /\ LET ref == NewRef IN
       /\ heap' = (ref :> NewGroup(groupId, name)) @@ heap
       /\ globalStudyGroups' = MapSet(globalStudyGroups, groupId, ref)
       /\ studyGroups' = MapSet(studyGroups, groupId, ref)
  /\ emitted' = <<>>
  /\ lastEvent' = Event("POST /api/groups", "none", groupId)
  /\ UNCHANGED <<sockets, rooms, pairSessions, uuid, inbox>>
  /\ UNCHANGED <<execVars, shareVars, callVars>>

\* mutant: every join stores a fresh welcome document
JoinStore_Reset(sessionId) ==
  MapSet(pairSessions, sessionId,
         [code |-> PairWelcome, language |-> "javascript",
          users |-> IF Has(pairSessions, sessionId)
                      THEN Get(pairSessions, sessionId).users ELSE <<>>])
\* socket.on('join-pair-session'): if (!pairSessions.has(sessionId)) set the default
JoinStore(sessionId) ==
  IF ~Has(pairSessions, sessionId)
    THEN MapSet(pairSessions, sessionId,
                [code |-> PairWelcome, language |-> "javascript", users |-> <<>>])
    ELSE pairSessions
JoinPairSession(c, sessionId) ==
  /\ sockets[c] = "connected"
  /\ Has(pairSessions, sessionId) => Len(Get(pairSessions, sessionId).users) < MaxUsers
  /\ rooms' = [rooms EXCEPT ![c] = @ \cup {sessionId}]
  /\ LET ps1 == JoinStore(sessionId)
         session == Get(ps1, sessionId)
         pushed == [session EXCEPT !.users = Append(@, c)]
     IN /\ pairSessions' = MapSet(ps1, sessionId, pushed)
        /\ emitted' =
             << Emission("session-state", {c},
                         [code |-> pushed.code, language |-> pushed.language]),
                Emission("user-joined", SocketTo(sockets, rooms', c, sessionId),
                         [id |-> c]) >>
  /\ lastEvent' = Event("join-pair-session", c, sessionId)
  /\ UNCHANGED <<sockets, heap, globalStudyGroups, studyGroups, uuid, inbox>>
  /\ UNCHANGED <<execVars, shareVars, callVars>>

\* mutant: the code of an update is relayed but not stored
StoreDocument_RelayOnly(doc, code, language) ==
  [doc EXCEPT !.language = IF language # Undefined THEN language ELSE @]
\* session.code = code; if (language) session.language = language
StoreDocument(doc, code, language) ==
  [doc EXCEPT !.code = code,
              !.language = IF language # Undefined THEN language ELSE @]

\* mutant: a code-change on an unknown id creates the session
CodeChange_Upsert(c, sessionId, code, language) ==
  /\ sockets[c] = "connected"
  /\ pairSessions' =
       MapSet(pairSessions, sessionId,
              StoreDocument(IF Has(pairSessions, sessionId)
                              THEN Get(pairSessions, sessionId)
                              ELSE [code |-> PairWelcome, language |-> "javascript",
                                    users |-> <<>>],
                            code, language))
  /\ emitted' = << Emission("code-update", SocketTo(sockets, rooms, c, sessionId),
                            [code |-> code, language |-> language]) >>
  /\ lastEvent' = EventData("code-change", c, sessionId, <<code, language>>)
  /\ UNCHANGED <<sockets, rooms, heap, globalStudyGroups, studyGroups, uuid, inbox>>
  /\ UNCHANGED <<execVars, shareVars, callVars>>
\* socket.on('code-change')
CodeChange(c, sessionId, code, language) ==
  /\ sockets[c] = "connected"
  /\ IF Has(pairSessions, sessionId)
       THEN /\ pairSessions' = MapSet(pairSessions, sessionId,
                                 StoreDocument(Get(pairSessions, sessionId), code, language))
            /\ emitted' = << Emission("code-update",
                                      SocketTo(sockets, rooms, c, sessionId),
                                      [code |-> code, language |-> language]) >>
       ELSE /\ pairSessions' = pairSessions
            /\ emitted' = <<>>
  /\ lastEvent' = EventData("code-change", c, sessionId, <<code, language>>)
  /\ UNCHANGED <<sockets, rooms, heap, globalStudyGroups, studyGroups, uuid, inbox>>
  /\ UNCHANGED <<execVars, shareVars, callVars>>

\* socket.on('join-study-group'): lookup in the global directory or creation
JoinLookup(reg, groupId) ==
  IF Has(reg.globalStudyGroups, groupId)
    THEN [reg EXCEPT !.studyGroups =
            IF ~Has(@, groupId)
              THEN MapSet(@, groupId, Get(reg.globalStudyGroups, groupId))
              ELSE @]
    ELSE LET ref == NewRef IN
           [reg EXCEPT !.heap = (ref :> NewGroup(groupId, Undefined)) @@ @,
                       !.globalStudyGroups = MapSet(@, groupId, ref),
                       !.studyGroups = MapSet(@, groupId, ref)]
\* group.users.push({ id: socket.id, name: `User${group.users.length + 1}` })
PushUser(users, c) == Append(users, [id |-> c, name |-> <<"User", Len(users) + 1>>])

Registry == [pairSessions |-> pairSessions, heap |-> heap,
             globalStudyGroups |-> globalStudyGroups, studyGroups |-> studyGroups]

JoinStudyGroup(c, groupId) ==
  /\ sockets[c] = "connected"
  /\ Has(globalStudyGroups, groupId) =>
       Len(heap[Get(globalStudyGroups, groupId)].users) < MaxUsers
  /\ rooms' = [rooms EXCEPT ![c] = @ \cup {groupId}]
  /\ LET reg == JoinLookup(Registry, groupId)
         ref == Get(reg.globalStudyGroups, groupId)
         group == [reg.heap[ref] EXCEPT !.users = PushUser(@, c)]
     IN /\ heap' = [reg.heap EXCEPT ![ref] = group]
        /\ globalStudyGroups' = reg.globalStudyGroups
        /\ studyGroups' = reg.studyGroups
        /\ emitted' =
             << Emission("group-state", {c},
                         [code |-> group.code, language |-> group.language,
                          messages |-> group.messages, questions |-> group.questions,
                          users |-> group.users, groupName |-> group.name]),
                Emission("user-joined-group", SocketTo(sockets, rooms', c, groupId),
                         [id |-> c, name |-> <<"User", Len(group.users)>>]),
                Emission("group-updated", IoEmit(sockets),
                         [id |-> groupId, userCount |-> Len(group.users)]) >>
  /\ lastEvent' = Event("join-study-group", c, groupId)
  /\ UNCHANGED <<sockets, pairSessions, uuid, inbox>>
  /\ UNCHANGED <<execVars, shareVars, callVars>>

\* socket.on('group-code-change')
GroupCodeChange(c, groupId, code, language) ==
  /\ sockets[c] = "connected"
  /\ IF Has(studyGroups, groupId)
       THEN /\ heap' = [heap EXCEPT ![Get(studyGroups, groupId)] =
                          StoreDocument(@, code, language)]
            /\ emitted' = << Emission("group-code-update",
                                      SocketTo(sockets, rooms, c, groupId),
                                      [code |-> code, language |-> language]) >>
       ELSE /\ heap' = heap
            /\ emitted' = <<>>
  /\ lastEvent' = EventData("group-code-change", c, groupId, <<code, language>>)
  /\ UNCHANGED <<sockets, rooms, pairSessions, globalStudyGroups, studyGroups,
                 uuid, inbox>>
  /\ UNCHANGED <<execVars, shareVars, callVars>>

\* the entry pushed on a log: { id: uuidv4(), text, username: username || 'Anonymous' }
LogEntry(n, text, username) ==
  [id |-> n, text |-> text, username |-> OrElse(username, "Anonymous")]
\* mutant: the sender gets no echo (socket.to instead of io.to)
LogReceivers_NoEcho(c, groupId) == SocketTo(sockets, rooms, c, groupId)
\* io.to(groupId).emit(...): receivers of a chat or question event
LogReceivers(c, groupId) == IoTo(sockets, rooms, groupId)
Deliver(box, to, ev) == [d \in Conns |-> IF d \in to THEN Append(box[d], ev) ELSE box[d]]

\* mutant: the newest entry is put at the head of the log
Submit_Unshift(c, groupId, text, username, log, evIn, evOut) ==
  /\ sockets[c] = "connected"
  /\ uuid < MaxUuid
  /\ IF Has(studyGroups, groupId)
       THEN LET entry == LogEntry(uuid + 1, text, username)
                ref == Get(studyGroups, groupId)
                to == LogReceivers(c, groupId)
            IN /\ uuid' = uuid + 1
               /\ heap' = [heap EXCEPT ![ref] =
                             IF log = "messages"
                               THEN [@ EXCEPT !.messages = <<entry>> \o @]
                               ELSE [@ EXCEPT !.questions = <<entry>> \o @]]
               /\ emitted' = << Emission(evOut, to, entry) >>
               /\ inbox' = Deliver(inbox, to,
                                   [event |-> evOut, group |-> groupId, id |-> entry.id])
       ELSE /\ emitted' = <<>>
            /\ UNCHANGED <<uuid, heap, inbox>>
  /\ lastEvent' = EventData(evIn, c, groupId, <<text, username>>)
  /\ UNCHANGED <<sockets, rooms, pairSessions, globalStudyGroups, studyGroups>>
  /\ UNCHANGED <<execVars, shareVars, callVars>>
\* socket.on('send-message') (log = "messages") and socket.on('add-question')
\* (log = "questions")
Submit(c, groupId, text, username, log, evIn, evOut) ==
  /\ sockets[c] = "connected"
  /\ uuid < MaxUuid
  /\ IF Has(studyGroups, groupId)
       THEN LET entry == LogEntry(uuid + 1, text, username)
                ref == Get(studyGroups, groupId)
                to == LogReceivers(c, groupId)
            IN /\ uuid' = uuid + 1
               /\ heap' = [heap EXCEPT ![ref] =
                             IF log = "messages"
                               THEN [@ EXCEPT !.messages = Append(@, entry)]
                               ELSE [@ EXCEPT !.questions = Append(@, entry)]]
               /\ emitted' = << Emission(evOut, to, entry) >>
               /\ inbox' = Deliver(inbox, to,
                                   [event |-> evOut, group |-> groupId, id |-> entry.id])
       ELSE /\ emitted' = <<>>
            /\ UNCHANGED <<uuid, heap, inbox>>
  /\ lastEvent' = EventData(evIn, c, groupId, <<text, username>>)
  /\ UNCHANGED <<sockets, rooms, pairSessions, globalStudyGroups, studyGroups>>
  /\ UNCHANGED <<execVars, shareVars, callVars>>

SendMessage(c, groupId, message, username) ==
  Submit(c, groupId, message, username, "messages", "send-message", "new-message")
AddQuestion(c, groupId, question, username) ==
  Submit(c, groupId, question, username, "questions", "add-question", "new-question")

\* socket.on('disconnect'), first loop: pairSessions.forEach
LeaveSession(session, c) ==
  IF IndexOf(session.users, c) > 0
    THEN [session EXCEPT !.users = Splice(@, IndexOf(session.users, c))]
    ELSE session
RECURSIVE UserLeftEvents(_, _, _, _, _)
UserLeftEvents(ps, socks, rms, c, i) ==
  IF i > Len(ps) THEN <<>>
  ELSE (IF IndexOf(ps[i][2].users, c) > 0
          THEN << Emission("user-left", SocketTo(socks, rms, c, ps[i][1]), [id |-> c]) >>
          ELSE <<>>)
       \o UserLeftEvents(ps, socks, rms, c, i + 1)

\* mutant: the emptied group is deleted from the global directory only
RemoveIfEmpty_GlobalOnly(st, socks, groupId, ref) ==
  IF Len(st.heap[ref].users) = 0
    THEN [st EXCEPT !.globalStudyGroups = MapDelete(@, groupId),
                    !.emitted = Append(@, Emission("group-removed", IoEmit(socks),
                                                   [id |-> groupId]))]
    ELSE st
\* if (group.users.length === 0) { delete from both registries; emit group-removed }
RemoveIfEmpty(st, socks, groupId, ref) ==
  IF Len(st.heap[ref].users) = 0
    THEN [st EXCEPT !.globalStudyGroups = MapDelete(@, groupId),
                    !.studyGroups = MapDelete(@, groupId),
                    !.emitted = Append(@, Emission("group-removed", IoEmit(socks),
                                                   [id |-> groupId]))]
    ELSE st
\* mutant: a leaving member is not announced to the lobby
LeaveGroup_Silent(st, socks, rms, c, groupId, ref) ==
  LET group == st.heap[ref]
      userIndex == FindIndex(group.users, c)
  IN IF userIndex > 0
       THEN LET users == Splice(group.users, userIndex)
                st1 == [st EXCEPT
                          !.heap = [@ EXCEPT ![ref] = [group EXCEPT !.users = users]],
                          !.emitted = @ \o
                            << Emission("user-left-group", SocketTo(socks, rms, c, groupId),
                                        group.users[userIndex]) >>]
            IN RemoveIfEmpty(st1, socks, groupId, ref)
       ELSE st
\* body of studyGroups.forEach for one entry
LeaveGroup(st, socks, rms, c, groupId, ref) ==
  LET group == st.heap[ref]
      userIndex == FindIndex(group.users, c)
  IN IF userIndex > 0
       THEN LET users == Splice(group.users, userIndex)
                st1 == [st EXCEPT
                          !.heap = [@ EXCEPT ![ref] = [group EXCEPT !.users = users]],
                          !.emitted = @ \o
                            << Emission("user-left-group", SocketTo(socks, rms, c, groupId),
                                        group.users[userIndex]),
                               Emission("group-updated", IoEmit(socks),
                                        [id |-> groupId, userCount |-> Len(users)]) >>]
            IN RemoveIfEmpty(st1, socks, groupId, ref)
       ELSE st
RECURSIVE LeaveGroups(_, _, _, _, _, _)
LeaveGroups(st, socks, rms, c, entries, i) ==
  IF i > Len(entries) THEN st
  ELSE LeaveGroups(LeaveGroup(st, socks, rms, c, entries[i][1], entries[i][2]),
                   socks, rms, c, entries, i + 1)

\* the whole 'disconnect' handler of socket c on registry reg; socks and rms
\* are the sockets and rooms once c is gone
OnDisconnect(reg, socks, rms, c) ==
  LET ps == [i \in 1..Len(reg.pairSessions) |->
               <<reg.pairSessions[i][1], LeaveSession(reg.pairSessions[i][2], c)>>]
      st0 == [pairSessions |-> ps, heap |-> reg.heap,
              globalStudyGroups |-> reg.globalStudyGroups,
              studyGroups |-> reg.studyGroups,
              emitted |-> UserLeftEvents(reg.pairSessions, socks, rms, c, 1)]
      st1 == LeaveGroups(st0, socks, rms, c, reg.studyGroups, 1)
  IN [st1 EXCEPT !.heap = Collect(@, st1.globalStudyGroups, st1.studyGroups)]

Disconnect(c) ==
  /\ sockets[c] = "connected"
  /\ sockets' = [sockets EXCEPT ![c] = "closed"]
  /\ rooms' = [rooms EXCEPT ![c] = {}]
  /\ LET st == OnDisconnect(Registry, sockets', rooms', c) IN
       /\ pairSessions' = st.pairSessions
       /\ heap' = st.heap
       /\ globalStudyGroups' = st.globalStudyGroups
       /\ studyGroups' = st.studyGroups
       /\ emitted' = st.emitted
  /\ lastEvent' = Event("disconnect", c, "none")
  /\ UNCHANGED <<uuid, inbox>>
  /\ UNCHANGED <<execVars, shareVars, callVars>>

\* ---------------------------------------------------------- execution service
\* extractJavaClassName: the name after "public class", else 'Main'
extractJavaClassName(code) ==
  IF code.publicClass # "none" THEN code.publicClass ELSE "Main"

Extension(language) ==
  CASE language = "python" -> ".py"
    [] language = "javascript" -> ".js"
    [] language = "java" -> ".java"
    [] language = "cpp" -> ".cpp"
    [] OTHER -> ".txt"
\* `temp_${Date.now()}${extensions[language] || '.txt'}`
TempName(t, language) == <<"temp", t, Extension(language)>>
\* fs.writeFileSync
WriteFile(dir, name, content) == (name :> content) @@ dir
\* fs.unlinkSync of a file that exists
RemoveFile(dir, name) == [n \in DOMAIN dir \ {name} |-> dir[n]]
Exists(dir, name) == name \in DOMAIN dir

createTempFile(dir, code, language, t) ==
  IF language = "java"
    THEN LET className == extractJavaClassName(code)
             javaFileName == <<className, ".java">>
         IN [fs |-> WriteFile(dir, javaFileName, code),
             filePath |-> javaFileName, className |-> className]
    ELSE [fs |-> WriteFile(dir, TempName(t, language), code),
          filePath |-> TempName(t, language), className |-> Undefined]

\* mutant: a language without a command is handed to an interpreter
RunCommand_AnyLanguage(language) ==
  CASE language \in {"python", "javascript"} -> <<"interpret">>
    [] language = "java" -> <<"javac", "java">>
    [] language = "cpp" -> <<"g++", "binary">>
    [] OTHER -> <<"interpret">>
\* the processes the command of /api/run chains with &&; <<>> for no command
RunCommand(language) ==
  CASE language \in {"python", "javascript"} -> <<"interpret">>
    [] language = "java" -> <<"javac", "java">>
    [] language = "cpp" -> <<"g++", "binary">>
    [] OTHER -> <<>>
\* the binary g++ is told to write
BinaryName == IF Platform = "win32" THEN <<"output.exe">> ELSE <<"output">>
ClassFile(className) == <<className, ".class">>

Respond(req, status, success, output, error) ==
  [req EXCEPT !.phase = "responded",
              !.response = [status |-> status, success |-> success,
                            output |-> output, error |-> error]]

\* app.post('/api/run'), up to exec(...)
RunRequest(r, code, language) ==
  /\ requests[r].phase = "idle"
  /\ LET req == [requests[r] EXCEPT !.api = "run", !.language = language, !.code = code]
     IN IF code.tag = Undefined \/ language = Undefined
          THEN /\ requests' = [requests EXCEPT ![r] =
                    Respond(req, 400, FALSE, "", "Code and language are required")]
               /\ fs' = fs
          ELSE LET tmp == createTempFile(fs, code, language, now)
                   req1 == [req EXCEPT !.filePath = tmp.filePath,
                                       !.className = tmp.className]
               IN /\ fs' = tmp.fs
                  /\ IF RunCommand(language) = <<>>
                       THEN requests' = [requests EXCEPT ![r] =
                              Respond(req1, 400, FALSE, "", "Unsupported language")]
                       ELSE requests' = [requests EXCEPT ![r] =
                              [req1 EXCEPT !.phase = "spawned",
                                           !.steps = RunCommand(language)]]
  /\ now' = now
  /\ UNCHANGED <<registryVars, shareVars, callVars>>

\* app.post('/api/analyze'), up to exec(...)
AnalyzeRequest(r, code, language) ==
  /\ requests[r].phase = "idle"
  /\ LET req == [requests[r] EXCEPT !.api = "analyze", !.language = language,
                                    !.code = code]
     IN IF code.tag = Undefined \/ language = Undefined
          THEN /\ requests' = [requests EXCEPT ![r] =
                    Respond(req, 400, FALSE, "", "Code and language are required")]
               /\ fs' = fs
          ELSE LET tmp == createTempFile(fs, code, language, now)
                   req1 == [req EXCEPT !.filePath = tmp.filePath,
                                       !.className = tmp.className]
               IN IF language \in {"javascript", "python"}
                    THEN /\ fs' = tmp.fs
                         /\ requests' = [requests EXCEPT ![r] =
                              [req1 EXCEPT !.phase = "spawned",
                                           !.steps = <<"interpret">>]]
                    ELSE /\ fs' = RemoveFile(tmp.fs, tmp.filePath)
                         /\ requests' = [requests EXCEPT ![r] =
                              Respond(req1, 400, FALSE, "",
                                      "Analysis only supported for JavaScript and Python")]
  /\ now' = now
  /\ UNCHANGED <<registryVars, shareVars, callVars>>

\* the head process of the command has run to its end with outcome out: the
\* next process of the chain starts if it exited with 0, else the command ends
\* and, unless the shell was killed before, the exec callback is due
Advance(req, out, ran) ==
  LET rest == IF out.exit = 0 THEN Tail(req.steps) ELSE <<>>
      req1 == [req EXCEPT !.steps = rest,
                          !.executed = IF ran # "none" THEN ran ELSE @]
  IN IF rest = <<>> /\ req.phase = "spawned"
       THEN [req1 EXCEPT !.phase = "exited", !.outcome = out]
       ELSE req1
Failed == [exit |-> 1, stdout |-> "", stderr |-> "text", killed |-> FALSE]
Compiled == [exit |-> 0, stdout |-> "", stderr |-> "", killed |-> FALSE]

\* one process of the spawned command runs: an interpreter or a compiled
\* program executes the file it finds, a compiler writes its artifact
ProcessStep(r, exit, stdout, stderr) ==
  LET req == requests[r]
      out == [exit |-> exit, stdout |-> stdout, stderr |-> stderr, killed |-> FALSE]
  IN
  /\ req.steps # <<>>
  /\ CASE Head(req.steps) = "interpret" ->
            /\ fs' = fs
            /\ IF Exists(fs, req.filePath)
                 THEN requests' = [requests EXCEPT ![r] =
                                     Advance(req, out, fs[req.filePath].tag)]
                 ELSE /\ out = Failed
                      /\ requests' = [requests EXCEPT ![r] = Advance(req, Failed, "none")]
       [] Head(req.steps) \in {"javac", "g++"} ->
            LET artifact == IF Head(req.steps) = "javac"
                              THEN ClassFile(req.className) ELSE BinaryName
            IN IF Exists(fs, req.filePath) /\ exit = 0
                 THEN /\ out = Compiled
                      /\ fs' = WriteFile(fs, artifact, fs[req.filePath])
                      /\ requests' = [requests EXCEPT ![r] = Advance(req, Compiled, "none")]
                 ELSE /\ out = Failed
                      /\ fs' = fs
                      /\ requests' = [requests EXCEPT ![r] = Advance(req, Failed, "none")]
       [] Head(req.steps) \in {"java", "binary"} ->
            LET artifact == IF Head(req.steps) = "java"
                              THEN ClassFile(req.className) ELSE BinaryName
            IN /\ fs' = fs
               /\ IF Exists(fs, artifact)
                    THEN requests' = [requests EXCEPT ![r] =
                                        Advance(req, out, fs[artifact].tag)]
                    ELSE /\ out = Failed
                         /\ requests' = [requests EXCEPT ![r] =
                                           Advance(req, Failed, "none")]
  /\ now' = now
  /\ UNCHANGED <<registryVars, shareVars, callVars>>

\* exec's { timeout: 10000 }: the shell is killed and the callback is due with
\* error.killed; the process the shell was waiting for dies with it or runs on
Timeout(r, stderr, survives) ==
  /\ requests[r].phase = "spawned"
  /\ requests[r].steps # <<>>
  /\ requests' = [requests EXCEPT ![r] =
       [@ EXCEPT !.phase = "exited",
                 !.outcome = [exit |-> 1, stdout |-> "", stderr |-> stderr,
                              killed |-> TRUE],
                 !.steps = IF survives THEN @ ELSE <<>>]]
  /\ UNCHANGED <<now, fs>>
  /\ UNCHANGED <<registryVars, shareVars, callVars>>

\* the try { ... } catch of the /api/run callback: unlinkSync(filePath) throws
\* when the file is gone, and then nothing else is removed
CleanupRun(dir, req) ==
  IF ~Exists(dir, req.filePath) THEN dir
  ELSE LET d1 == RemoveFile(dir, req.filePath)
           d2 == IF req.language = "cpp" /\ Exists(d1, <<"output">>)
                   THEN RemoveFile(d1, <<"output">>) ELSE d1
       IN IF req.language = "java" /\ Exists(d2, ClassFile(req.className))
            THEN RemoveFile(d2, ClassFile(req.className)) ELSE d2
\* try { fs.unlinkSync(filePath); } catch (e) {}
CleanupAnalyze(dir, req) ==
  IF Exists(dir, req.filePath) THEN RemoveFile(dir, req.filePath) ELSE dir

\* the result of /api/run: if (error) ... stderr || error.message ... else stdout || ...
RunResult(out) ==
  IF out.exit # 0 \/ out.killed
    THEN [status |-> 200, success |-> FALSE,
          output |-> IF out.stderr # "" THEN out.stderr ELSE "Command failed",
          error |-> "true"]
    ELSE [status |-> 200, success |-> TRUE,
          output |-> IF out.stdout # "" THEN out.stdout
                     ELSE "Program executed successfully (no output)",
          error |-> "false"]
\* the result of /api/analyze: stderr first, then error; the "(line N)" found in
\* the diagnostic text is left out of the output
AnalyzeResult(out) ==
  IF out.stderr # ""
    THEN [status |-> 200, success |-> FALSE, output |-> "Error: stderr", error |-> ""]
    ELSE IF out.exit # 0 \/ out.killed
      THEN [status |-> 200, success |-> FALSE, output |-> "Error: Command failed",
            error |-> ""]
      ELSE [status |-> 200, success |-> TRUE, output |-> "Code is valid!", error |-> ""]

\* the callback of exec(...)
Callback(r) ==
  /\ requests[r].phase = "exited"
  /\ LET req == requests[r] IN
       /\ fs' = IF req.api = "run" THEN CleanupRun(fs, req) ELSE CleanupAnalyze(fs, req)
       /\ requests' = [requests EXCEPT ![r] =
            [req EXCEPT !.phase = "responded",
                        !.response = IF req.api = "run" THEN RunResult(req.outcome)
                                     ELSE AnalyzeResult(req.outcome)]]
  /\ now' = now
  /\ UNCHANGED <<registryVars, shareVars, callVars>>

\* a millisecond passes
Tick ==
  /\ now < MaxClock
  /\ now' = now + 1
  /\ UNCHANGED <<fs, requests>>
  /\ UNCHANGED <<registryVars, shareVars, callVars>>

\* ------------------------------------------------------------ shared snippets
\* title || 'Untitled'
TitleOf(title) == IF title \in {Undefined, ""} THEN "Untitled" ELSE title

\* mutant: every snippet is stored under the same id
NewCodeId_Reused(sc) == 1
\* uuidv4(): an id that no snippet has
NewCodeId(sc) == Len(sc) + 1

\* res.json(sharedCode): the Date is written as its ISO string
SnippetJson(snippet) ==
  [code |-> snippet.code, language |-> snippet.language, title |-> snippet.title,
   createdAt |-> <<"ISO", snippet.createdAt>>]

\* POST /api/share
Share(code, language, title) ==
  /\ Len(posted) < MaxShares
  /\ LET codeId == NewCodeId(sharedCodes) IN
       /\ sharedCodes' = MapSet(sharedCodes, codeId,
                                [code |-> code, language |-> language,
                                 title |-> TitleOf(title), createdAt |-> now])
       /\ posted' = Append(posted, [body |-> [code |-> code, language |-> language,
                                              title |-> title],
                                    codeId |-> codeId])
       /\ reply' = [request |-> "POST /api/share", codeId |-> codeId, status |-> 200,
                    body |-> [codeId |-> codeId, shareUrl |-> <<"/share/", codeId>>]]
  /\ UNCHANGED <<registryVars, execVars, callVars>>

\* GET /api/share/:codeId
GetShare(codeId) ==
  /\ reply' = IF Has(sharedCodes, codeId)
                THEN [request |-> "GET /api/share", codeId |-> codeId, status |-> 200,
                      body |-> SnippetJson(Get(sharedCodes, codeId))]
                ELSE [request |-> "GET /api/share", codeId |-> codeId, status |-> 404,
                      body |-> [error |-> "Shared code not found"]]
  /\ UNCHANGED <<sharedCodes, posted>>
  /\ UNCHANGED <<registryVars, execVars, callVars>>

\* ---------------------------------------------------------------- video calls
\* `${caller}-${recipientId}`
CallId(caller, recipientId) == <<caller, recipientId>>
\* id.includes(caller), for socket ids of one length
Includes(callId, c) == callId[1] = c \/ callId[2] = c
\* Array.from(videoCalls.keys()).find(id => id.includes(caller)): 0 for undefined
FindCall(vc, c) ==
  IF \E i \in 1..Len(vc) : Includes(vc[i][1], c)
    THEN CHOOSE i \in 1..Len(vc) :
           Includes(vc[i][1], c) /\ \A j \in 1..(i - 1) : ~Includes(vc[j][1], c)
    ELSE 0
\* io.to(socketId): every socket is in the room named by its own id
IoToSocket(socks, rms, id) ==
  IoTo(socks, [d \in Conns |-> rms[d] \cup {d}], id)
\* socket.broadcast: every connected socket but the sender
Broadcast(socks, c) == IoEmit(socks) \ {c}

\* socket.on('initiate-call')
InitiateCall(c, recipientId) ==
  /\ sockets[c] = "connected"
  /\ videoCalls' = MapSet(videoCalls, CallId(c, recipientId),
                          [caller |-> c, recipient |-> recipientId,
                           status |-> "pending"])
  /\ emitted' = << Emission("call-initiated", IoToSocket(sockets, rooms, recipientId),
                            [callerId |-> c]) >>
  /\ lastEvent' = Event("initiate-call", c, recipientId)
  /\ UNCHANGED <<sockets, rooms, pairSessions, heap, globalStudyGroups, studyGroups,
                 uuid, inbox>>
  /\ UNCHANGED <<execVars, shareVars>>

\* socket.on('call-answered')
CallAnswered(c, callerId) ==
  /\ sockets[c] = "connected"
  /\ emitted' = << Emission("call-answered", IoToSocket(sockets, rooms, callerId),
                            [answererId |-> c]) >>
  /\ lastEvent' = Event("call-answered", c, callerId)
  /\ UNCHANGED <<sockets, rooms, pairSessions, heap, globalStudyGroups, studyGroups,
                 uuid, inbox>>
  /\ UNCHANGED <<execVars, shareVars, callVars>>

\* socket.on('call-rejected')
CallRejected(c, callerId) ==
  /\ sockets[c] = "connected"
  /\ emitted' = << Emission("call-rejected", IoToSocket(sockets, rooms, callerId),
                            [message |-> "Call was rejected"]) >>
  /\ lastEvent' = Event("call-rejected", c, callerId)
  /\ UNCHANGED <<sockets, rooms, pairSessions, heap, globalStudyGroups, studyGroups,
                 uuid, inbox>>
  /\ UNCHANGED <<execVars, shareVars, callVars>>

\* socket.on('offer') / socket.on('answer') / socket.on('ice-candidate')
Signal(c, kind) ==
  /\ sockets[c] = "connected"
  /\ emitted' = << Emission(kind, Broadcast(sockets, c), [senderId |-> c]) >>
  /\ lastEvent' = Event(kind, c, "none")
  /\ UNCHANGED <<sockets, rooms, pairSessions, heap, globalStudyGroups, studyGroups,
                 uuid, inbox>>
  /\ UNCHANGED <<execVars, shareVars, callVars>>

\* socket.on('end-call')
EndCall(c) ==
  /\ sockets[c] = "connected"
  /\ emitted' = << Emission("call-ended", Broadcast(sockets, c), [callerId |-> c]) >>
  /\ LET i == FindCall(videoCalls, c) IN
       videoCalls' = IF i # 0 THEN MapDelete(videoCalls, videoCalls[i][1])
                     ELSE videoCalls
  /\ lastEvent' = Event("end-call", c, "none")
  /\ UNCHANGED <<sockets, rooms, pairSessions, heap, globalStudyGroups, studyGroups,
                 uuid, inbox>>
  /\ UNCHANGED <<execVars, shareVars>>

\* ------------------------------------------------------------ specifications
Lifecycle ==
  \/ \E c \in Conns : Connect(c)
  \/ \E c \in Conns : Disconnect(c)

\* membership of sessions and groups
Next ==
  \/ Lifecycle
  \/ \E g \in GroupIds, n \in InNames : createStudyGroup(g, n)
  \/ \E c \in Conns, g \in GroupIds : JoinStudyGroup(c, g)
  \/ \E c \in Conns, s \in PairIds : JoinPairSession(c, s)

Spec == Init /\ [][Next]_vars

\* documents of a session and a group that share one id
DocNext ==
  \/ Lifecycle
  \/ \E c \in Conns, s \in RoomIds : JoinPairSession(c, s)
  \/ \E c \in Conns, g \in RoomIds : JoinStudyGroup(c, g)
  \/ \E c \in Conns, s \in RoomIds, code \in InCodes, l \in InLanguages :
       CodeChange(c, s, code, l)
  \/ \E c \in Conns, g \in RoomIds, code \in InCodes, l \in InLanguages :
       GroupCodeChange(c, g, code, l)

DocSpec == Init /\ [][DocNext]_vars

\* chat and question logs of a group
ChatNext ==
  \/ Lifecycle
  \/ \E g \in RoomIds, n \in InNames : createStudyGroup(g, n)
  \/ \E c \in Conns, g \in RoomIds : JoinStudyGroup(c, g)
  \/ \E c \in Conns, g \in RoomIds, u \in InUsernames : SendMessage(c, g, "hi", u)
  \/ \E c \in Conns, g \in RoomIds, u \in InUsernames : AddQuestion(c, g, "why", u)

ChatSpec == Init /\ [][ChatNext]_vars

\* every event that names a session or a group, sent with ids of groups that
\* exist, that were removed, and that never existed
EventNext ==
  \/ Lifecycle
  \/ \E c \in Conns, g \in RoomIds : JoinStudyGroup(c, g)
  \/ \E c \in Conns, s \in GroupIds : CodeChange(c, s, "A", "python")
  \/ \E c \in Conns, g \in GroupIds : GroupCodeChange(c, g, "A", "python")
  \/ \E c \in Conns, g \in GroupIds : SendMessage(c, g, "hi", "bob")
  \/ \E c \in Conns, g \in GroupIds : AddQuestion(c, g, "why", "bob")

EventSpec == Init /\ [][EventNext]_vars

\* the execution service and its temp directory
InSources(r, language) ==
  {NoCode} \cup {SourceCode(r, p) :
                   p \in IF language = "java" THEN InPublicClasses ELSE {"none"}}
ExecNext ==
  \/ \E r \in Reqs, l \in InRunLanguages : \E code \in InSources(r, l) :
       RunRequest(r, code, l)
  \/ \E r \in Reqs, l \in InRunLanguages : \E code \in InSources(r, l) :
       AnalyzeRequest(r, code, l)
  \/ \E r \in Reqs, exit \in {0, 1}, stdout \in Outputs, stderr \in Outputs :
       ProcessStep(r, exit, stdout, stderr)
  \/ \E r \in Reqs, stderr \in Outputs, survives \in BOOLEAN :
       Timeout(r, stderr, survives)
  \/ \E r \in Reqs : Callback(r)
  \/ Tick

ExecSpec == Init /\ [][ExecNext]_vars

\* shared snippets: ids that were returned and one that never is
ShareIds == 1..(MaxShares + 1)
ShareNext ==
  \/ \E code \in InCodes \cup {Undefined}, title \in InTitles :
       Share(code, "python", title)
  \/ \E codeId \in ShareIds : GetShare(codeId)
  \/ Tick

ShareSpec == Init /\ [][ShareNext]_vars

\* video call signalling between sockets that connect and disconnect
CallNext ==
  \/ Lifecycle
  \/ \E c \in Conns : \E r \in Recipients \ {c} : InitiateCall(c, r)
  \/ \E c \in Conns : \E r \in Recipients \ {c} : CallAnswered(c, r)
  \/ \E c \in Conns : \E r \in Recipients \ {c} : CallRejected(c, r)
  \/ \E c \in Conns, kind \in {"offer", "answer", "ice-candidate"} : Signal(c, kind)
  \/ \E c \in Conns : EndCall(c)

CallSpec == Init /\ [][CallNext]_vars

\* ------------------------------------------------------------------ claims
\* the sockets in the member list of a session / of a group object
SessionMembers(session) == {session.users[i] : i \in 1..Len(session.users)}
GroupMembers(group) == {group.users[i].id : i \in 1..Len(group.users)}

C1_LiveInGlobal ==
  \A i \in 1..Len(studyGroups) :
    /\ Has(globalStudyGroups, studyGroups[i][1])
    /\ Get(globalStudyGroups, studyGroups[i][1]) = studyGroups[i][2]
C1_EmptiedRemoved ==
  \A g \in GroupIds :
    (/\ lastEvent'.name = "disconnect"
     /\ Has(studyGroups, g)
     /\ heap[Get(studyGroups, g)].users # <<>>
     /\ Len(heap[Get(studyGroups, g)].users) = 1
     /\ heap[Get(studyGroups, g)].users[1].id = lastEvent'.socket)
    => (~Has(studyGroups', g) /\ ~Has(globalStudyGroups', g))
\* C1: every group of the live registry is in the global directory (as the
\* same object), and a disconnect that takes a group's last member leaves the
\* group in neither registry.
C1_RegistriesAgree == []C1_LiveInGlobal /\ [][C1_EmptiedRemoved]_vars
\* a disconnect has just removed an emptied group while another group stays
C1_Witness ==
  /\ lastEvent.name = "disconnect"
  /\ \E i \in 1..Len(emitted) : emitted[i].event = "group-removed"
  /\ Len(studyGroups) > 0

Listed(list, g, n) == \E i \in 1..Len(list) : list[i].id = g /\ list[i].userCount = n
InList(list, g) == \E i \in 1..Len(list) : list[i].id = g
C2_Step ==
  \A c \in Conns, g \in GroupIds :
    /\ (/\ lastEvent'.name = "join-study-group" /\ lastEvent'.socket = c
        /\ lastEvent'.id = g
        /\ ~Has(globalStudyGroups, g) /\ ~Has(studyGroups, g))
       => Listed(listStudyGroups', g, 1)
    /\ (/\ lastEvent'.name = "disconnect" /\ lastEvent'.socket = c
        /\ Has(globalStudyGroups, g)
        /\ GroupMembers(heap[Get(globalStudyGroups, g)]) = {c})
       => ~InList(listStudyGroups', g)
\* C2: a join-study-group on an id in no registry lists the id with member
\* count 1, and the disconnect of a group's only member connection unlists the
\* id, however often that connection had joined.
C2_JoinListLeaveUnlist == [][C2_Step]_vars

\* C3: a connection whose disconnect has been processed is in the member list
\* of no pair session and of no study group.
C3_LeftEverywhere ==
  \A c \in Conns :
    sockets[c] = "closed" =>
      /\ \A i \in 1..Len(pairSessions) : c \notin SessionMembers(pairSessions[i][2])
      /\ \A r \in DOMAIN heap : c \notin GroupMembers(heap[r])

RegistryOf(st) == [pairSessions |-> st.pairSessions, heap |-> st.heap,
                   globalStudyGroups |-> st.globalStudyGroups,
                   studyGroups |-> st.studyGroups]
InNoRoom(c) ==
  /\ \A i \in 1..Len(pairSessions) : c \notin SessionMembers(pairSessions[i][2])
  /\ \A r \in DOMAIN heap : c \notin GroupMembers(heap[r])
\* C4: the disconnect handler changes nothing and emits nothing for a
\* connection that is in no room, and running it a second time for the same
\* connection changes nothing and emits nothing.
C4_LeaveIdempotent ==
  \A c \in Conns :
    LET socks == [sockets EXCEPT ![c] = "closed"]
        rms == [rooms EXCEPT ![c] = {}]
        once == OnDisconnect(Registry, socks, rms, c)
        twice == OnDisconnect(RegistryOf(once), socks, rms, c)
    IN /\ InNoRoom(c) => (RegistryOf(once) = Registry /\ once.emitted = <<>>)
       /\ RegistryOf(twice) = RegistryOf(once)
       /\ twice.emitted = <<>>

Document(room) == [code |-> room.code, language |-> room.language]
C5_Step ==
  \A s \in PairIds :
    \* a join of an unknown id creates the welcome document and returns it
    /\ (lastEvent'.name = "join-pair-session" /\ lastEvent'.id = s
        /\ ~Has(pairSessions, s))
       => /\ Has(pairSessions', s)
          /\ Document(Get(pairSessions', s)) =
               [code |-> PairWelcome, language |-> "javascript"]
    \* a join of a known id returns the stored document
    /\ (lastEvent'.name = "join-pair-session" /\ lastEvent'.id = s)
       => /\ emitted'[1].event = "session-state"
          /\ emitted'[1].to = {lastEvent'.socket}
          /\ emitted'[1].payload = Document(Get(pairSessions', s))
    \* a processed code-change stores its code
    /\ (lastEvent'.name = "code-change" /\ lastEvent'.id = s /\ Has(pairSessions, s))
       => Get(pairSessions', s).code = lastEvent'.data[1]
    \* nothing else changes the document of an existing session or removes it
    /\ (Has(pairSessions, s) /\ ~(lastEvent'.name = "code-change" /\ lastEvent'.id = s))
       => /\ Has(pairSessions', s)
          /\ Document(Get(pairSessions', s)) = Document(Get(pairSessions, s))
\* C5: joining an unknown pair session creates it with the welcome document;
\* a join returns the stored document; a code-change on an existing session
\* stores its code; and no join, disconnect or other event changes or removes
\* the document - so a later join returns the code of the latest code-change.
C5_LastWriteSurvivesJoins == [][C5_Step]_vars
\* a socket joins after a code-change whose author has disconnected, and is
\* handed the changed code
C5_Witness ==
  /\ lastEvent.name = "join-pair-session"
  /\ emitted[1].payload.code \in InCodes
  /\ \E d \in Conns : sockets[d] = "closed"
  /\ SessionMembers(Get(pairSessions, lastEvent.id)) = {lastEvent.socket}

\* the connected sockets in the member list of group g
LiveGroupMembers(g) ==
  {d \in GroupMembers(heap[Get(studyGroups, g)]) : sockets[d] = "connected"}
LogIn(h, sg, g, ev) == IF ev = "new-message" THEN h[Get(sg, g)].messages
                       ELSE h[Get(sg, g)].questions
LogOf(g, ev) == LogIn(heap, studyGroups, g, ev)
Position(log, id) == CHOOSE i \in 1..Len(log) : log[i].id = id
InLog(log, id) == \E i \in 1..Len(log) : log[i].id = id
C6_Delivered ==
  \A g \in RoomIds :
    (/\ lastEvent'.name \in {"send-message", "add-question"}
     /\ lastEvent'.id = g
     /\ Has(studyGroups, g))
    => LET ev == IF lastEvent'.name = "send-message" THEN "new-message"
                 ELSE "new-question"
           log == LogIn(heap', studyGroups', g, ev)
       IN /\ Len(log) = Len(LogOf(g, ev)) + 1
          /\ \A d \in LiveGroupMembers(g) :
               inbox'[d] = Append(inbox[d], [event |-> ev, group |-> g,
                                             id |-> log[Len(log)].id])
C6_InOrder ==
  \A d \in Conns, g \in RoomIds :
    Has(studyGroups, g) =>
      \A i, j \in 1..Len(inbox[d]) :
        LET log == LogOf(g, inbox[d][i].event) IN
        (/\ i < j
         /\ inbox[d][i].group = g /\ inbox[d][j].group = g
         /\ inbox[d][i].event = inbox[d][j].event
         /\ InLog(log, inbox[d][i].id) /\ InLog(log, inbox[d][j].id))
        => Position(log, inbox[d][i].id) < Position(log, inbox[d][j].id)
\* C6: a send-message / add-question on an existing group appends one entry to
\* the log and delivers it to every connected member of the group, the sender
\* included; every socket has received the entries of a log in log order.
C6_ChatDelivery == []C6_InOrder /\ [][C6_Delivered]_vars
\* two members of one group have both received two messages, the last one
\* sent by one of them
C6_Witness ==
  /\ lastEvent.name = "send-message"
  /\ Has(studyGroups, lastEvent.id)
  /\ LiveGroupMembers(lastEvent.id) = Conns
  /\ \A d \in Conns : Len(inbox[d]) = 2 /\ inbox[d][1].event = "new-message"

\* the connected sockets in the member list of pair session s
LiveSessionMembers(s) ==
  {d \in SessionMembers(Get(pairSessions, s)) : sockets[d] = "connected"}
\* C7: a code-update / group-code-update goes to exactly the other connected
\* members of the room of that kind: not to the sender, not to a non-member.
C7_RoomScoped ==
  /\ (lastEvent.name = "code-change" /\ emitted # <<>>)
     => emitted[1].to = LiveSessionMembers(lastEvent.id) \ {lastEvent.socket}
  /\ (lastEvent.name = "group-code-change" /\ emitted # <<>>)
     => emitted[1].to = LiveGroupMembers(lastEvent.id) \ {lastEvent.socket}

Answered(r) == requests[r].api = "run" /\ requests[r].phase = "responded"
                 /\ requests[r].response.status = 200
\* C8: the /api/run result is a failure exactly when the exit code is nonzero,
\* stderr text was emitted or the run timed out; a failure carries stderr, else
\* the failure reason; a success carries stdout, else the placeholder.
C8_ExitSemantics ==
  \A r \in Reqs :
    Answered(r) =>
      LET out == requests[r].outcome
          res == requests[r].response
          failure == out.exit # 0 \/ out.stderr # "" \/ out.killed
      IN /\ res.success = ~failure
         /\ failure => res.output = (IF out.stderr # "" THEN out.stderr
                                     ELSE "Command failed")
         /\ ~failure => res.output = (IF out.stdout # "" THEN out.stdout
                                      ELSE "Program executed successfully (no output)")

InFlight(r) == requests[r].phase \in {"spawned", "exited"}
\* C9: when no request is in flight, the temp directory holds no file.
C9_WorkspaceReleased ==
  (\A r \in Reqs : ~InFlight(r)) => DOMAIN fs = {}

\* C10: while a request's command is running its source file holds the code
\* the request submitted, and what the request executes is that code.
C10_NoSharedPath ==
  \A r \in Reqs :
    /\ requests[r].phase = "spawned" =>
         (Exists(fs, requests[r].filePath) /\ fs[requests[r].filePath].tag = r)
    /\ requests[r].executed \in {"none", r}

\* C11: the response to a run that hit the timeout is a failure, and once it
\* is sent no process of the request's command is still running.
C11_TimeoutKillsAll ==
  \A r \in Reqs :
    (/\ requests[r].api = "run"
     /\ requests[r].phase = "responded"
     /\ requests[r].outcome.killed)
    => (~requests[r].response.success /\ requests[r].steps = <<>>)

Rejected(req, message) ==
  /\ req.phase = "responded"
  /\ req.response = [status |-> 400, success |-> FALSE, output |-> "",
                     error |-> message]
  /\ req.steps = <<>>
  /\ req.executed = "none"
  /\ req.outcome = NoOutcome
Incomplete(req) == req.code.tag = Undefined \/ req.language = Undefined
UnknownId ==
  \/ lastEvent'.name = "code-change" /\ ~Has(pairSessions, lastEvent'.id)
  \/ /\ lastEvent'.name \in {"group-code-change", "send-message", "add-question"}
     /\ ~Has(studyGroups, lastEvent'.id)
\* C13: a code-change, group-code-change, send-message or add-question that
\* names an id its registry does not hold changes no registry and no log, and
\* nothing is emitted or delivered.
C13_UnknownIdNoOp ==
  [][UnknownId =>
       /\ UNCHANGED <<rooms, pairSessions, heap, globalStudyGroups, studyGroups, inbox>>
       /\ emitted' = <<>>]_vars
\* a chat message was sent to a group that has been removed while a socket
\* that joined it is still connected elsewhere
C13_Witness ==
  /\ lastEvent.name = "send-message"
  /\ lastEvent.id \in RoomIds
  /\ ~Has(studyGroups, lastEvent.id)
  /\ emitted = <<>>
  /\ \E d \in Conns : sockets[d] = "closed"

\* the body of the share request that returned codeId
Submitted(codeId) == posted[CHOOSE i \in 1..Len(posted) : posted[i].codeId = codeId].body
Returned(codeId) == \E i \in 1..Len(posted) : posted[i].codeId = codeId
GotShare == reply.request = "GET /api/share"
\* C14 as stated: retrieving a returned id yields the code, language and title
\* exactly as they were submitted, an absent or empty title included; an id
\* that was never returned yields 404.
C14_RoundTripVerbatim ==
  GotShare =>
    IF Returned(reply.codeId)
      THEN /\ reply.status = 200
           /\ reply.body.code = Submitted(reply.codeId).code
           /\ reply.body.language = Submitted(reply.codeId).language
           /\ reply.body.title = Submitted(reply.codeId).title
      ELSE reply.status = 404
\* C14: retrieving a returned id yields, at any later point and after any
\* other shares, the code and language exactly as submitted and the title as
\* submitted when it was non-empty, 'Untitled' when it was absent or empty;
\* an id that was never returned yields 404.
C14_RoundTrip ==
  GotShare =>
    IF Returned(reply.codeId)
      THEN /\ reply.status = 200
           /\ reply.body.code = Submitted(reply.codeId).code
           /\ reply.body.language = Submitted(reply.codeId).language
           /\ reply.body.title =
                IF Submitted(reply.codeId).title \in {Undefined, ""}
                  THEN "Untitled" ELSE Submitted(reply.codeId).title
      ELSE reply.status = 404
\* the first snippet, shared with an empty title, is retrieved after another share
C14_Witness ==
  /\ GotShare
  /\ Len(posted) >= 2
  /\ reply.codeId = posted[1].codeId
  /\ posted[1].body.title = ""
  /\ posted[2].body # posted[1].body
  /\ reply.status = 200

\* the member list of group g in registry sg over heap h, empty when g is unknown
UsersOf(h, sg, g) == IF Has(sg, g) THEN h[Get(sg, g)].users ELSE <<>>
\* C15: every step that changes the member list of a study group (a join or
\* a member's disconnect) emits group-updated to all connected sockets with
\* the member count after the step; when the step removes a group that had
\* members, group-removed for its id is emitted to all connected sockets
\* after the group-updated with count 0.
C15_LobbyInformed ==
  [][\A g \in GroupIds :
       LET before == UsersOf(heap, studyGroups, g)
           after == UsersOf(heap', studyGroups', g)
           updated(i, n) ==
             /\ i \in 1..Len(emitted')
             /\ emitted'[i] = Emission("group-updated", IoEmit(sockets'),
                                       [id |-> g, userCount |-> n])
       IN /\ before # after => \E i \in 1..Len(emitted') : updated(i, Len(after))
          /\ (before # <<>> /\ ~Has(studyGroups', g)) =>
               \E i, k \in 1..Len(emitted') :
                 /\ updated(i, 0)
                 /\ i < k
                 /\ emitted'[k] = Emission("group-removed", IoEmit(sockets'),
                                           [id |-> g])]_vars
\* a disconnect emptied a group while another socket was connected to hear of it
C15_Witness ==
  /\ lastEvent.name = "disconnect"
  /\ \E i, k \in 1..Len(emitted) :
       /\ i < k
       /\ emitted[i].event = "group-updated"
       /\ emitted[i].payload.userCount = 0
       /\ emitted[i].to # {}
       /\ emitted[k].event = "group-removed"
       /\ emitted[k].payload.id = emitted[i].payload.id

\* the records of the call registry that name socket x as caller or recipient
CallsOf(vc, x) == {vc[i][2] : i \in {j \in 1..Len(vc) :
                                      vc[j][2].caller = x \/ vc[j][2].recipient = x}}
CallRecords(vc) == {vc[i] : i \in 1..Len(vc)}
\* C16: initiate-call from c to r leaves a pending record keyed by (c, r);
\* once an end-call from x has been processed no record names x as caller or
\* recipient, and every record between other parties is still there.
C16_CallLifetime ==
  [][/\ lastEvent'.name = "initiate-call" =>
          /\ Has(videoCalls', CallId(lastEvent'.socket, lastEvent'.id))
          /\ Get(videoCalls', CallId(lastEvent'.socket, lastEvent'.id)) =
               [caller |-> lastEvent'.socket, recipient |-> lastEvent'.id,
                status |-> "pending"]
     /\ lastEvent'.name = "end-call" =>
          /\ CallsOf(videoCalls', lastEvent'.socket) = {}
          /\ \A e \in CallRecords(videoCalls) :
               (e[2].caller # lastEvent'.socket /\ e[2].recipient # lastEvent'.socket)
                 => e \in CallRecords(videoCalls')]_vars

IsPrefix(s, t) == Len(s) <= Len(t) /\ \A i \in 1..Len(s) : s[i] = t[i]
\* C17: over every step that keeps a study group in the registries, the
\* group's messages and questions before the step are prefixes of those after
\* it; a send-message on a known group adds exactly one entry at the end of
\* messages and none to questions, an add-question the other way round.
C17_AppendOnly ==
  [][\A g \in RoomIds :
       (Has(studyGroups, g) /\ Has(studyGroups', g)) =>
         LET old == heap[Get(studyGroups, g)]
             new == heap'[Get(studyGroups', g)]
         IN /\ IsPrefix(old.messages, new.messages)
            /\ IsPrefix(old.questions, new.questions)
            /\ (lastEvent'.name = "send-message" /\ lastEvent'.id = g)
                 => /\ Len(new.messages) = Len(old.messages) + 1
                    /\ new.messages[Len(new.messages)].text = lastEvent'.data[1]
                    /\ new.questions = old.questions
            /\ (lastEvent'.name = "add-question" /\ lastEvent'.id = g)
                 => /\ Len(new.questions) = Len(old.questions) + 1
                    /\ new.questions[Len(new.questions)].text = lastEvent'.data[1]
                    /\ new.messages = old.messages
            /\ lastEvent'.name \notin {"send-message", "add-question"}
                 => new.messages = old.messages /\ new.questions = old.questions]_vars
\* a second message was appended to a group's log after a socket disconnected
C17_Witness ==
  /\ lastEvent.name = "send-message"
  /\ Has(studyGroups, lastEvent.id)
  /\ Len(heap[Get(studyGroups, lastEvent.id)].messages) >= 2
  /\ \E d \in Conns : sockets[d] = "closed"

NoRepeat(ids) == \A i, j \in 1..Len(ids) : ids[i] = ids[j] => i = j
\* C18: no socket id occurs twice in the member list of a pair session or of
\* a study group, so the length of the list is the number of sockets joined.
C18_MembersAreASet ==
  /\ \A i \in 1..Len(pairSessions) :
       /\ NoRepeat(pairSessions[i][2].users)
       /\ Len(pairSessions[i][2].users) =
            Cardinality(SessionMembers(pairSessions[i][2]))
  /\ \A i \in 1..Len(studyGroups) :
       LET group == heap[studyGroups[i][2]] IN
       /\ NoRepeat([k \in 1..Len(group.users) |-> group.users[k].id])
       /\ Len(group.users) = Cardinality(GroupMembers(group))

\* C19: a code-change or group-code-change changes the document of the room
\* it names only when its sender is a current member of that room.
C19_MembersOnly ==
  [][/\ \A s \in RoomIds :
          (Has(pairSessions, s) /\ Has(pairSessions', s)
           /\ Document(Get(pairSessions', s)) # Document(Get(pairSessions, s)))
            => /\ lastEvent'.name = "code-change"
               /\ lastEvent'.id = s
               /\ lastEvent'.socket \in SessionMembers(Get(pairSessions, s))
     /\ \A g \in RoomIds :
          (Has(studyGroups, g) /\ Has(studyGroups', g)
           /\ Document(heap'[Get(studyGroups', g)]) # Document(heap[Get(studyGroups, g)]))
            => /\ lastEvent'.name = "group-code-change"
               /\ lastEvent'.id = g
               /\ lastEvent'.socket \in GroupMembers(heap[Get(studyGroups, g)])]_vars

\* the room a processed update named, when it exists
UpdatedRoom ==
  IF lastEvent.name = "code-change" THEN Get(pairSessions, lastEvent.id)
  ELSE heap[Get(studyGroups, lastEvent.id)]
UpdateRelayed ==
  /\ lastEvent.name \in {"code-change", "group-code-change"}
  /\ emitted # <<>>
\* C20 as stated: the payload relayed for an update equals the stored
\* document in code and in language, also when the update omits the language.
C20_PayloadIsDocument ==
  UpdateRelayed => emitted[1].payload = Document(UpdatedRoom)
\* C20: the payload relayed for an update carries the code that is now stored
\* and the language exactly as the update gave it; a language that is given
\* is the stored one, and an update that omits it leaves the stored language
\* as it was while the payload carries none.
C20_PayloadAndDocument ==
  [][UpdateRelayed' =>
       LET was == IF lastEvent'.name = "code-change"
                    THEN Get(pairSessions, lastEvent'.id)
                    ELSE heap[Get(studyGroups, lastEvent'.id)]
           payload == emitted'[1].payload
       IN /\ payload = [code |-> lastEvent'.data[1], language |-> lastEvent'.data[2]]
          /\ payload.code = UpdatedRoom'.code
          /\ IF payload.language # Undefined
               THEN payload.language = UpdatedRoom'.language
               ELSE UpdatedRoom'.language = was.language]_vars
\* an update without a language was relayed to another member of a room whose
\* stored language an earlier update had set
C20_Witness ==
  /\ UpdateRelayed
  /\ lastEvent.data[2] = Undefined
  /\ emitted[1].to # {}
  /\ UpdatedRoom.language = "python"
====
